---------------------------- MODULE Spec2Model ----------------------------
(***************************************************************************)
(* ThirdPersonController (src/src/game/thirdPersonController.js) as a      *)
(* state machine: the input handlers, update(dt) and dispose().            *)
(*                                                                         *)
(* JavaScript numbers are modelled in fixed point:                         *)
(*   lengths in millimetres, velocities in mm/s, dt in 1/6000 s,           *)
(*   angles in 1e-4 rad, unit vectors and interpolation factors in 1e-4.   *)
(* Every product is rounded to the nearest unit (RDiv).                    *)
(***************************************************************************)
EXTENDS Integers, Sequences, FiniteSets, TLC

VARIABLES
  target,         \* this.target is set (FALSE: null/undefined)
  position,       \* target.position  [x, y, z]
  facing,         \* target.quaternion, a rotation about +Y, as its angle
  camPos,         \* camera.position  [x, y, z]
  camAim,         \* the point last given to camera.lookAt
  environment,    \* [has, groundY, boundsHalfSize, treeColliders]
  velocity,       \* this.velocity  [x, y, z]
  onGround,
  keysDown,
  jumpRequested,
  dragging,
  pointerId,      \* NoPointer is null
  lastPointerX,
  lastPointerY,
  yaw,
  phi,
  distance,
  listeners,      \* the registrations held by window and the DOM element
  dragClass,      \* domElement.classList has "dragging"
  onJumpCalls,    \* how often the onJump callback ran
  threw,          \* a call raised an exception
  lastOp,         \* history: the operation that ran last
  pre,            \* history: what the last update(dt) started from and did
  press,          \* history: the last non-repeat Space keydown and its jumps
  disposeCalls,   \* history: dispose() calls so far
  frames,         \* history: update(dt) calls so far
  calc,           \* the last call of damp: its arguments and its result
  since,          \* history: the key events since the last update(dt)
  loop,           \* main.js: the player load and what tick() last did
  place           \* createEnvironment: the tree being placed

ctrlVars == <<velocity, onGround, keysDown, jumpRequested, dragging, pointerId,
              lastPointerX, lastPointerY, yaw, phi, distance>>
sceneVars == <<target, position, facing, camPos, camAim, environment>>
domVars == <<listeners, dragClass>>
histVars == <<lastOp, pre, press, disposeCalls, frames, onJumpCalls, threw,
              calc, since>>
mainVars == <<loop, place>>
vars == <<ctrlVars, sceneVars, domVars, histVars, mainVars>>

----------------------------------------------------------------------------
(* Fixed-point arithmetic *)

FX == 10 * 1000            \* scale of unit vectors and factors
MS == 6 * 1000             \* units of dt per second (0.05 s and 1/60 s are whole)

Abs(a) == IF a < 0 THEN -a ELSE a
Min(a, b) == IF a < b THEN a ELSE b
Max(a, b) == IF a > b THEN a ELSE b
Sign(a) == IF a > 0 THEN 1 ELSE IF a < 0 THEN -1 ELSE 0

\* a / b rounded to the nearest integer, b > 0
RDiv(a, b) ==
  IF a >= 0 THEN (2 * a + b) \div (2 * b) ELSE -((2 * (-a) + b) \div (2 * b))

RECURSIVE SqrtSearch(_, _, _)
SqrtSearch(n, lo, hi) ==
  IF lo >= hi THEN lo
  ELSE LET mid == (lo + hi + 1) \div 2
       IN  IF mid * mid <= n THEN SqrtSearch(n, mid, hi)
           ELSE SqrtSearch(n, lo, mid - 1)

\* Math.sqrt, rounded to the nearest integer
Sqrt(n) ==
  LET f == SqrtSearch(n, 0, 46340)
  IN  IF n - f * f > f THEN f + 1 ELSE f

PiFx == 31416
HalfPi == PiFx \div 2

\* Math.sin of an angle in 1e-4 rad, result in 1e-4
Sin(a) ==
  LET w == ((a + PiFx) % (2 * PiFx)) - PiFx
      r == IF w > HalfPi THEN PiFx - w ELSE IF w < -HalfPi THEN -PiFx - w ELSE w
      r2 == RDiv(r * r, FX)
      k4 == FX - RDiv(r2, 72)
      k3 == FX - RDiv(r2 * k4, 42 * FX)
      k2 == FX - RDiv(r2 * k3, 20 * FX)
      k1 == FX - RDiv(r2 * k2, 6 * FX)
  IN  RDiv(r * k1, FX)

Cos(a) == Sin(a + HalfPi)

\* Math.exp(-x) for x >= 0 in 1e-4, result in 1e-4
ExpNeg(x) ==
  LET y == RDiv(x, 8)
      h5 == FX - RDiv(y, 5)
      h4 == FX - RDiv(y * h5, 4 * FX)
      h3 == FX - RDiv(y * h4, 3 * FX)
      h2 == FX - RDiv(y * h3, 2 * FX)
      p1 == FX - RDiv(y * h2, FX)
      p2 == RDiv(p1 * p1, FX)
      p4 == RDiv(p2 * p2, FX)
  IN  RDiv(p4 * p4, FX)

\* 1 - Math.exp(-lambda * dt), lambda in 1/s
Blend(lambda, dt) == FX - ExpNeg(RDiv(lambda * dt * FX, MS))

\* Math.atan of z in [0, 1] (1e-4), result in 1e-4 rad
AtanUnit(z) == RDiv(7854 * z, FX) + RDiv(2730 * RDiv(z * (FX - z), FX), FX)

\* Math.atan2(y, x)
Atan2(y, x) ==
  LET ay == Abs(y)
      ax == Abs(x)
      a == IF ax = 0 /\ ay = 0 THEN 0
           ELSE IF ax >= ay THEN AtanUnit(RDiv(ay * FX, ax))
           ELSE HalfPi - AtanUnit(RDiv(ax * FX, ay))
      q == IF x >= 0 THEN a ELSE PiFx - a
  IN  IF y >= 0 THEN q ELSE -q

Vec(x, y, z) == [x |-> x, y |-> y, z |-> z]

\* MathUtils.lerp(x, y, t) = (1 - t) * x + t * y
Lerp(x, y, t) == RDiv((FX - t) * x + t * y, FX)

\* as damp, with the linear factor lambda * dt for 1 - Math.exp(-lambda * dt)
dampLinear(current, tgt, lambda, dt) ==
  current + RDiv((tgt - current) * lambda * dt, MS)

damp(current, tgt, lambda, dt) == Lerp(current, tgt, Blend(lambda, dt))

\* as clamp, without the lower limit
clampNoFloor(v, lo, hi) == Min(hi, v)

clamp(v, lo, hi) == Max(lo, Min(hi, v))

----------------------------------------------------------------------------
(* Program constants *)

TargetHeight == 1250
PlayerRadius == 550
WalkSpeed == 4600
RunSpeed == 7400
JumpSpeed == 7200
Gravity == 18500
RotationSpeed == 14
InitDistance == 8500
MinDistance == 3600
MaxDistance == 18000
InitPhi == 11200
MinPhi == 5500
MaxPhi == 14500
CameraSmooth == 14
RotateSpeed == 42          \* 0.0042 rad per pixel
ZoomStep == 850
Margin == 2000
DefaultHalf == 260000
DefaultGroundY == 0
AccelMove == 18
AccelStop == 14
DirEps == 100              \* 1e-6 as a squared length of 1e-4 vectors
MaxDt == 300               \* tick() passes at most 0.05 s
CameraStart == Vec(0, 6000, 10000)

NoPointer == -1

----------------------------------------------------------------------------
(* Listener registrations *)

Reg(tgt, type, handler) == <<tgt, type, handler>>

\* constructor: the addEventListener calls
CtorListeners ==
  { Reg("window", "keydown", "_onKeyDown"),
    Reg("window", "keyup", "_onKeyUp"),
    Reg("dom", "pointerdown", "_onPointerDown"),
    Reg("dom", "pointermove", "_onPointerMove"),
    Reg("dom", "pointerup", "_onPointerUp"),
    Reg("dom", "pointercancel", "_onPointerUp"),
    Reg("dom", "wheel", "_onWheel"),
    Reg("dom", "contextmenu", "_onContextMenu") }

\* as DisposeRemoved, without the second registration of _onPointerUp
DisposeRemovedButCancel ==
  { Reg("window", "keydown", "_onKeyDown"),
    Reg("window", "keyup", "_onKeyUp"),
    Reg("dom", "pointerdown", "_onPointerDown"),
    Reg("dom", "pointermove", "_onPointerMove"),
    Reg("dom", "pointerup", "_onPointerUp"),
    Reg("dom", "wheel", "_onWheel"),
    Reg("dom", "contextmenu", "_onContextMenu") }

\* dispose: the removeEventListener calls
DisposeRemoved ==
  { Reg("window", "keydown", "_onKeyDown"),
    Reg("window", "keyup", "_onKeyUp"),
    Reg("dom", "pointerdown", "_onPointerDown"),
    Reg("dom", "pointermove", "_onPointerMove"),
    Reg("dom", "pointerup", "_onPointerUp"),
    Reg("dom", "pointercancel", "_onPointerUp"),
    Reg("dom", "wheel", "_onWheel"),
    Reg("dom", "contextmenu", "_onContextMenu") }

\* the event target calls the handlers registered for the event type
Listening(tgt, type, handler) == Reg(tgt, type, handler) \in listeners

----------------------------------------------------------------------------
(* History *)

NoUpdate ==
  [dt |-> 0, ran |-> FALSE, onGround |-> TRUE, jumpRequested |-> FALSE,
   y |-> 0, vy |-> 0, jumped |-> FALSE, airborne |-> FALSE, yInt |-> 0,
   colX |-> 0, colZ |-> 0,
   x |-> 0, z |-> 0,              \* the position update started from
   hadMove |-> FALSE,             \* hasMove of the update before
   hasMove |-> FALSE,
   movementCalls |-> <<>>,        \* arguments of the onMovementChange calls
   onJumpCalls |-> 0,             \* onJump calls of this update
   impulses |-> 0,                \* velocity.y = jumpSpeed assignments so far
   wantX |-> 0, wantZ |-> 0,      \* this._desiredVel
   dampX |-> 0, dampZ |-> 0,      \* velocity after damp, before collisions
   fwdX |-> 0, fwdZ |-> -FX,      \* this._camForward
   xInt |-> 0, zInt |-> 0,        \* the position after integration
   vx |-> 0, vz |-> 0,            \* the horizontal velocity before
   presses |-> 0,                 \* non-repeat Space keydowns since the update
                                  \* before (2: two or more)
   tapped |-> FALSE]              \* a movement key went down and up since then

\* the key events since the last update that ran: presses counts the
\* non-repeat Space keydowns (2: two or more), downs holds the other keys that
\* went down and are still down, tapped tells that one of them went up again;
\* frames counts the calls of update up to here
MaxCount == 64

\* held: the keys that are physically down; shifted: a shift key was ever
\* down; pointer: the last pointer event
NoSince ==
  [presses |-> 0, downs |-> {}, tapped |-> FALSE, held |-> {},
   shifted |-> FALSE, pointer |-> [type |-> "none", id |-> 0, button |-> 0]]

NoCalc == [steps |-> 0, current |-> 0, tgt |-> 0, lambda |-> 0, dt |-> 0,
           out |-> 0]

\* airTime: the dt of the updates from the jump to the landing, both included
NoPress ==
  [any |-> FALSE, grounded |-> FALSE, jumps |-> 0, updated |-> FALSE,
   flew |-> FALSE, landed |-> FALSE, airTime |-> 0]

EventSeen ==
  /\ lastOp' = "event"
  /\ frames' = frames
  /\ UNCHANGED <<pre, disposeCalls, onJumpCalls, threw, calc, mainVars>>

\* an event that the history of key events does not record
Event == EventSeen /\ UNCHANGED since

----------------------------------------------------------------------------
(* Input handlers *)

\* as SetsJumpRequest, without the test of e.repeat
SetsJumpRequestOnRepeat(code, repeat) == code = "Space"

\* _onKeyDown: the jump request is set by a non-repeat Space keydown
SetsJumpRequest(code, repeat) == code = "Space" /\ ~repeat

\* as _onKeyDown, with the jump done in the handler
_onKeyDownJumps(code, repeat) ==
  /\ keysDown' = keysDown \cup {code}
  /\ velocity' = IF SetsJumpRequest(code, repeat) /\ onGround
                 THEN [velocity EXCEPT !.y = JumpSpeed] ELSE velocity
  /\ onGround' = (onGround /\ ~SetsJumpRequest(code, repeat))
  /\ UNCHANGED <<jumpRequested, dragging, pointerId, lastPointerX,
                 lastPointerY, yaw, phi, distance>>
  /\ UNCHANGED <<sceneVars, domVars, press>>

_onKeyDown(code, repeat) ==
  /\ keysDown' = keysDown \cup {code}
  /\ jumpRequested' = (jumpRequested \/ SetsJumpRequest(code, repeat))
  /\ press' = IF code = "Space" /\ ~repeat
              THEN [any |-> TRUE, grounded |-> onGround, jumps |-> 0,
                    updated |-> FALSE, flew |-> FALSE, landed |-> FALSE,
                    airTime |-> 0]
              ELSE press
  /\ UNCHANGED <<velocity, onGround, dragging, pointerId, lastPointerX,
                 lastPointerY, yaw, phi, distance>>
  /\ UNCHANGED <<sceneVars, domVars>>

\* as _onKeyUp, with a delete that removes nothing
_onKeyUpKeeps(code) ==
  UNCHANGED <<ctrlVars, sceneVars, domVars, press>>

_onKeyUp(code) ==
  /\ keysDown' = keysDown \ {code}
  /\ UNCHANGED <<velocity, onGround, jumpRequested, dragging, pointerId,
                 lastPointerX, lastPointerY, yaw, phi, distance>>
  /\ UNCHANGED <<sceneVars, domVars, press>>

_onPointerDown(button, id, x, y) ==
  IF button # 0 THEN UNCHANGED <<ctrlVars, sceneVars, domVars, press>>
  ELSE /\ dragging' = TRUE
       /\ pointerId' = id
       /\ lastPointerX' = x
       /\ lastPointerY' = y
       /\ dragClass' = TRUE
       /\ UNCHANGED <<velocity, onGround, keysDown, jumpRequested, yaw, phi,
                      distance, listeners>>
       /\ UNCHANGED <<sceneVars, press>>

\* as _onPointerMove, without the test of the pointer id
_onPointerMoveAnyPointer(id, x, y) ==
  IF ~dragging
  THEN UNCHANGED <<ctrlVars, sceneVars, domVars, press>>
  ELSE /\ lastPointerX' = x
       /\ lastPointerY' = y
       /\ yaw' = yaw - (x - lastPointerX) * RotateSpeed
       /\ phi' = clamp(phi + (y - lastPointerY) * RotateSpeed, MinPhi, MaxPhi)
       /\ UNCHANGED <<velocity, onGround, keysDown, jumpRequested, dragging,
                      pointerId, distance>>
       /\ UNCHANGED <<sceneVars, domVars, press>>

_onPointerMove(id, x, y) ==
  IF ~dragging \/ (pointerId # NoPointer /\ id # pointerId)
  THEN UNCHANGED <<ctrlVars, sceneVars, domVars, press>>
  ELSE /\ lastPointerX' = x
       /\ lastPointerY' = y
       /\ yaw' = yaw - (x - lastPointerX) * RotateSpeed
       /\ phi' = clamp(phi + (y - lastPointerY) * RotateSpeed, MinPhi, MaxPhi)
       /\ UNCHANGED <<velocity, onGround, keysDown, jumpRequested, dragging,
                      pointerId, distance>>
       /\ UNCHANGED <<sceneVars, domVars, press>>

_onPointerUp(id) ==
  IF pointerId # NoPointer /\ id # pointerId
  THEN UNCHANGED <<ctrlVars, sceneVars, domVars, press>>
  ELSE /\ dragging' = FALSE
       /\ pointerId' = NoPointer
       /\ dragClass' = FALSE
       /\ UNCHANGED <<velocity, onGround, keysDown, jumpRequested,
                      lastPointerX, lastPointerY, yaw, phi, distance,
                      listeners>>
       /\ UNCHANGED <<sceneVars, press>>

_onWheel(deltaY) ==
  /\ distance' = clamp(distance + Sign(deltaY) * ZoomStep, MinDistance,
                       MaxDistance)
  /\ UNCHANGED <<velocity, onGround, keysDown, jumpRequested, dragging,
                 pointerId, lastPointerX, lastPointerY, yaw, phi>>
  /\ UNCHANGED <<sceneVars, domVars, press>>

\* (e) => e.preventDefault()
_onContextMenu == UNCHANGED <<ctrlVars, sceneVars, domVars, press>>

NotHandled == UNCHANGED <<ctrlVars, sceneVars, domVars, press>>

----------------------------------------------------------------------------
(* Events, as window and the DOM element deliver them *)

KeyDownDispatch(code, repeat) ==
  IF Listening("window", "keydown", "_onKeyDown")
  THEN _onKeyDown(code, repeat) ELSE NotHandled

KeyDownEvent(code, repeat) == KeyDownDispatch(code, repeat) /\ Event

\* a keydown that the history of key events records
KeyDownSeen(code, repeat) ==
  /\ KeyDownDispatch(code, repeat)
  /\ since' = [since EXCEPT
                 !.presses = IF code = "Space" /\ ~repeat THEN Min(@ + 1, 2)
                             ELSE @,
                 !.downs = IF code # "Space" /\ code \notin since.held
                           THEN @ \cup {code} ELSE @,
                 !.held = @ \cup {code},
                 !.shifted = @ \/ code \in {"ShiftLeft", "ShiftRight"}]
  /\ EventSeen

KeyUpDispatch(code) ==
  IF Listening("window", "keyup", "_onKeyUp")
  THEN _onKeyUp(code) ELSE NotHandled

KeyUpEvent(code) == KeyUpDispatch(code) /\ Event

\* a keyup that the history of key events records
KeyUpSeen(code) ==
  /\ KeyUpDispatch(code)
  /\ since' = [since EXCEPT
                 !.tapped = @ \/ code \in since.downs,
                 !.downs = @ \ {code},
                 !.held = @ \ {code}]
  /\ EventSeen

\* a pointer event that the history records
SeenPointer(type, id, button) ==
  since' = [since EXCEPT
              !.pointer = [type |-> type, id |-> id, button |-> button]]

PointerDownDispatch(button, id, x, y) ==
  IF Listening("dom", "pointerdown", "_onPointerDown")
  THEN _onPointerDown(button, id, x, y) ELSE NotHandled

PointerDownEvent(button, id, x, y) == PointerDownDispatch(button, id, x, y) /\ Event

PointerDownSeen(button, id, x, y) ==
  /\ PointerDownDispatch(button, id, x, y)
  /\ SeenPointer("pointerdown", id, button)
  /\ EventSeen

PointerMoveDispatch(id, x, y) ==
  IF Listening("dom", "pointermove", "_onPointerMove")
  THEN _onPointerMove(id, x, y) ELSE NotHandled

PointerMoveEvent(id, x, y) == PointerMoveDispatch(id, x, y) /\ Event

PointerMoveSeen(id, x, y) ==
  /\ PointerMoveDispatch(id, x, y)
  /\ SeenPointer("pointermove", id, 0)
  /\ EventSeen

PointerUpDispatch(id) ==
  IF Listening("dom", "pointerup", "_onPointerUp")
  THEN _onPointerUp(id) ELSE NotHandled

PointerUpEvent(id) == PointerUpDispatch(id) /\ Event

PointerUpSeen(id) ==
  /\ PointerUpDispatch(id)
  /\ SeenPointer("pointerup", id, 0)
  /\ EventSeen

PointerCancelDispatch(id) ==
  IF Listening("dom", "pointercancel", "_onPointerUp")
  THEN _onPointerUp(id) ELSE NotHandled

PointerCancelEvent(id) == PointerCancelDispatch(id) /\ Event

PointerCancelSeen(id) ==
  /\ PointerCancelDispatch(id)
  /\ SeenPointer("pointercancel", id, 0)
  /\ EventSeen

WheelEvent(deltaY) ==
  /\ IF Listening("dom", "wheel", "_onWheel")
     THEN _onWheel(deltaY) ELSE NotHandled
  /\ Event

ContextMenuEvent ==
  /\ IF Listening("dom", "contextmenu", "_onContextMenu")
     THEN _onContextMenu ELSE NotHandled
  /\ Event

----------------------------------------------------------------------------
(* dispose() *)

\* as dispose, also dropping this.domElement, so that a second call fails
disposeDropsElement ==
  /\ listeners' = listeners \ DisposeRemoved
  /\ threw' = (threw \/ disposeCalls >= 1)
  /\ disposeCalls' = Min(disposeCalls + 1, 2)
  /\ lastOp' = "dispose"
  /\ UNCHANGED <<ctrlVars, sceneVars, dragClass, pre, press, frames,
                 onJumpCalls, calc, since, mainVars>>

dispose ==
  /\ listeners' = listeners \ DisposeRemoved
  /\ disposeCalls' = Min(disposeCalls + 1, 2)
  /\ lastOp' = "dispose"
  /\ UNCHANGED <<ctrlVars, sceneVars, dragClass, pre, press, frames,
                 onJumpCalls, threw, calc, since, mainVars>>

----------------------------------------------------------------------------
(* update(dt): the camera *)

Length3(v) == Sqrt(v.x * v.x + v.y * v.y + v.z * v.z)
Length2(x, z) == Sqrt(x * x + z * z)

\* this._targetPos: the target's position raised by targetHeight
AimPoint(p) == Vec(p.x, p.y + TargetHeight, p.z)

\* this._cameraOffset, from the spherical coordinates (phi, yaw, distance)
CameraOffset ==
  Vec(RDiv(RDiv(Sin(phi) * Sin(yaw), FX) * distance, FX),
      RDiv(Cos(phi) * distance, FX),
      RDiv(RDiv(Sin(phi) * Cos(yaw), FX) * distance, FX))

\* camera.position.lerp(this._desiredCameraPos, t)
CameraLerp(c, aim, t) ==
  LET off == CameraOffset
  IN  Vec(c.x + RDiv((aim.x + off.x - c.x) * t, FX),
          c.y + RDiv((aim.y + off.y - c.y) * t, FX),
          c.z + RDiv((aim.z + off.z - c.z) * t, FX))

\* camera.getWorldDirection after camera.lookAt(aim): the unit vector from the
\* camera to the aim point ((0, 0, -1) when the two coincide)
WorldDirection(c, aim) ==
  LET d == Vec(aim.x - c.x, aim.y - c.y, aim.z - c.z)
      len == Length3(d)
  IN  IF len = 0 THEN Vec(0, 0, -FX)
      ELSE Vec(RDiv(d.x * FX, len), RDiv(d.y * FX, len), RDiv(d.z * FX, len))

\* this._camForward: the direction flattened and normalized, or (0, 0, -1)
CamForward(dir) ==
  LET len == Length2(dir.x, dir.z)
  IN  IF dir.x * dir.x + dir.z * dir.z < DirEps \/ len = 0 THEN Vec(0, 0, -FX)
      ELSE Vec(RDiv(dir.x * FX, len), 0, RDiv(dir.z * FX, len))

\* this._camRight = forward x up, normalized
CamRight(f) ==
  LET len == Length2(f.z, f.x)
  IN  IF len = 0 THEN Vec(0, 0, 0)
      ELSE Vec(RDiv(-f.z * FX, len), 0, RDiv(f.x * FX, len))

----------------------------------------------------------------------------
(* update(dt): the move intent and the horizontal velocity *)

XInput == (IF "KeyD" \in keysDown THEN 1 ELSE 0)
          + (IF "KeyA" \in keysDown THEN -1 ELSE 0)
ZInput == (IF "KeyW" \in keysDown THEN 1 ELSE 0)
          + (IF "KeyS" \in keysDown THEN -1 ELSE 0)

\* this._moveDir before it is normalized
RawMoveDir(f, r) ==
  Vec(XInput * r.x + ZInput * f.x, 0, XInput * r.z + ZInput * f.z)

HasMove(m) == m.x * m.x + m.z * m.z > DirEps

\* as MoveDir, without the call of normalize
MoveDirRaw(m) == m

MoveDir(m) ==
  LET len == Length2(m.x, m.z)
  IN  IF HasMove(m) /\ len > 0
      THEN Vec(RDiv(m.x * FX, len), 0, RDiv(m.z * FX, len))
      ELSE m

IsRunning == "ShiftLeft" \in keysDown \/ "ShiftRight" \in keysDown

\* as MaxSpeed, with the two speeds swapped
MaxSpeedSwapped == IF IsRunning THEN WalkSpeed ELSE RunSpeed

MaxSpeed == IF IsRunning THEN RunSpeed ELSE WalkSpeed

\* this._desiredVel
DesiredVel(m, hasMove) ==
  LET speed == IF hasMove THEN MaxSpeed ELSE 0
  IN  Vec(RDiv(m.x * speed, FX), 0, RDiv(m.z * speed, FX))

Accel(hasMove) == IF hasMove THEN AccelMove ELSE AccelStop

----------------------------------------------------------------------------
(* update(dt): jump, gravity, integration, ground *)

\* as JumpNow, with || for &&
JumpNowEither(og, jr) == og \/ jr

\* if (this.onGround && this._jumpRequested)
JumpNow(og, jr) == og /\ jr

\* as JumpRequestAfter, cleared only inside the jump branch
JumpRequestKeptInAir(og, jr) == jr /\ ~og

\* this._jumpRequested = false, whether or not a jump occurred
JumpRequestAfter(og, jr) == FALSE

\* as OnJumpCalls, with the call outside the jump branch
OnJumpCallsEveryUpdate(jumped) == 1

\* if (this.onJump) this.onJump(), inside the jump branch
OnJumpCalls(jumped) == IF jumped THEN 1 ELSE 0

\* the constructor reads no onMovementChange from its argument and update
\* calls none: the calls made when hasMove goes from hadMove to hasMove
MovementChangeCalls(hadMove, hasMove) == <<>>

\* as VerticalVelocity, with gravity left out of the launch update
VerticalVelocityElse(vy, og, jr, dt) ==
  IF JumpNow(og, jr) THEN JumpSpeed
  ELSE IF ~og THEN vy - RDiv(Gravity * dt, MS) ELSE vy

\* velocity.y after the jump and gravity steps
VerticalVelocity(vy, og, jr, dt) ==
  LET v1 == IF JumpNow(og, jr) THEN JumpSpeed ELSE vy
      airborne == IF JumpNow(og, jr) THEN TRUE ELSE ~og
  IN  IF airborne THEN v1 - RDiv(Gravity * dt, MS) ELSE v1

\* position += velocity * dt, one component
Integrate(p, v, dt) == p + RDiv(v * dt, MS)

\* as ReadThrows, for this.environment.groundY without the ?.
ReadThrowsOnNull == "object" \notin environment.has

\* this.environment?.groundY: from null the ?. reads undefined, it throws
\* nothing
ReadThrows == FALSE

\* this.environment?.groundY ?? 0, and likewise the other two
GroundY == IF "groundY" \in environment.has THEN environment.groundY
           ELSE DefaultGroundY
Half == IF "boundsHalfSize" \in environment.has
        THEN environment.boundsHalfSize ELSE DefaultHalf
Colliders == IF "treeColliders" \in environment.has
             THEN environment.treeColliders ELSE <<>>

\* as Lands, with < for <=
LandsBelow(y) == y < GroundY

\* if (this.target.position.y <= groundY)
Lands(y) == y <= GroundY

\* as OnGroundAfter, without this.onGround = true in the ground test
OnGroundAfterNoLanding(landed, jumped, grounded) ==
  IF jumped THEN FALSE ELSE grounded

\* this.onGround after the update: false by the jump, true by the ground test
OnGroundAfter(landed, jumped, grounded) ==
  IF landed THEN TRUE ELSE IF jumped THEN FALSE ELSE grounded

----------------------------------------------------------------------------
(* update(dt): world bounds and tree collisions *)

BoundsClamp(v) == clamp(v, -Half + Margin, Half - Margin)

\* Math.sqrt(d2) || 0.0001, in units of 0.1 mm
CollisionDistance(d2) == IF Sqrt(100 * d2) = 0 THEN 1 ELSE Sqrt(100 * d2)

\* as CollideOne, without the cancelling of the velocity into the collider
CollideOneKeepsVelocity(c, st) ==
  LET dx == st.px - c.x
      dz == st.pz - c.z
      r == PlayerRadius + c.radius
  IN  IF Abs(dx) < r /\ Abs(dz) < r /\ dx * dx + dz * dz < r * r
      THEN LET d == CollisionDistance(dx * dx + dz * dz)
               nx == RDiv(dx * 10 * FX, d)
               nz == RDiv(dz * 10 * FX, d)
               push == 10 * r - d
           IN  [px |-> st.px + RDiv(nx * push, 10 * FX),
                pz |-> st.pz + RDiv(nz * push, 10 * FX),
                vx |-> st.vx, vz |-> st.vz]
      ELSE st

\* one pass of the loop body; st is [px, pz, vx, vz]
CollideOne(c, st) ==
  LET dx == st.px - c.x
      dz == st.pz - c.z
      r == PlayerRadius + c.radius
  IN  IF Abs(dx) < r /\ Abs(dz) < r /\ dx * dx + dz * dz < r * r
      THEN LET d == CollisionDistance(dx * dx + dz * dz)
               nx == RDiv(dx * 10 * FX, d)
               nz == RDiv(dz * 10 * FX, d)
               push == 10 * r - d
               vn == st.vx * nx + st.vz * nz
               cancel == vn < 0
           IN  [px |-> st.px + RDiv(nx * push, 10 * FX),
                pz |-> st.pz + RDiv(nz * push, 10 * FX),
                vx |-> IF cancel THEN st.vx - RDiv(RDiv(vn, FX) * nx, FX)
                       ELSE st.vx,
                vz |-> IF cancel THEN st.vz - RDiv(RDiv(vn, FX) * nz, FX)
                       ELSE st.vz]
      ELSE st

RECURSIVE Collide(_, _, _)
Collide(i, cs, st) ==
  IF i > Len(cs) THEN st ELSE Collide(i + 1, cs, CollideOne(cs[i], st))

\* the order of the two steps in update
BoundsThenCollide(x, z, vx, vz) ==
  Collide(1, Colliders,
          [px |-> BoundsClamp(x), pz |-> BoundsClamp(z), vx |-> vx, vz |-> vz])

----------------------------------------------------------------------------
(* update(dt): facing *)

WrapAngle(a) == ((a + PiFx - 1) % (2 * PiFx)) - PiFx + 1

\* target.quaternion.slerp(desiredFacing, rt) for rotations about +Y
Slerp(from, to, rt) == WrapAngle(from + RDiv(WrapAngle(to - from) * rt, FX))

----------------------------------------------------------------------------
(* update(dt) *)

Penetrates(x, z, c) ==
  LET dx == x - c.x
      dz == z - c.z
      r == PlayerRadius + c.radius
  IN  Abs(dx) < r /\ Abs(dz) < r /\ dx * dx + dz * dz < r * r

update(dt) ==
  IF ~target
  THEN \* if (!this.target) return;
       /\ lastOp' = "update"
       /\ pre' = [NoUpdate EXCEPT !.dt = dt, !.hadMove = pre.hasMove,
                                   !.hasMove = pre.hasMove,
                                   !.impulses = pre.impulses]
       /\ frames' = Min(frames + 1, MaxCount)
       /\ UNCHANGED <<ctrlVars, sceneVars, domVars, press, disposeCalls,
                      onJumpCalls, threw, calc, since>>
  ELSE \E aim \in {AimPoint(position)} :
       \E cam \in {CameraLerp(camPos, aim, Blend(CameraSmooth, dt))} :
       \E fwd \in {CamForward(WorldDirection(cam, aim))} :
       \E raw \in {RawMoveDir(fwd, CamRight(fwd))} :
       \E hasMove \in {HasMove(raw)}, dir \in {MoveDir(raw)} :
       \E want \in {DesiredVel(dir, hasMove)} :
       \E vx \in {damp(velocity.x, want.x, Accel(hasMove), dt)},
          vz \in {damp(velocity.z, want.z, Accel(hasMove), dt)},
          vy \in {VerticalVelocity(velocity.y, onGround, jumpRequested, dt)},
          jumped \in {JumpNow(onGround, jumpRequested)} :
       \E x1 \in {Integrate(position.x, vx, dt)},
          y1 \in {Integrate(position.y, vy, dt)},
          z1 \in {Integrate(position.z, vz, dt)} :
       \E landed \in {Lands(y1)}, h \in {BoundsThenCollide(x1, z1, vx, vz)} :
           /\ camPos' = cam
           /\ camAim' = aim
           /\ velocity' = Vec(h.vx, IF landed THEN 0 ELSE vy, h.vz)
           /\ onGround' = OnGroundAfter(landed, jumped, onGround)
           /\ jumpRequested' = JumpRequestAfter(onGround, jumpRequested)
           /\ position' = Vec(h.px, IF landed THEN GroundY ELSE y1, h.pz)
           /\ facing' = IF hasMove
                        THEN Slerp(facing, Atan2(dir.x, dir.z),
                                   Blend(RotationSpeed, dt))
                        ELSE facing
           /\ onJumpCalls' = Min(onJumpCalls + OnJumpCalls(jumped), 2)
           /\ lastOp' = "update"
           /\ pre' = [dt |-> dt, ran |-> TRUE, onGround |-> onGround,
                      jumpRequested |-> jumpRequested, y |-> position.y,
                      vy |-> velocity.y, jumped |-> jumped,
                      airborne |-> (jumped \/ ~onGround), yInt |-> y1,
                      colX |-> BoundsClamp(x1), colZ |-> BoundsClamp(z1),
                      x |-> position.x, z |-> position.z,
                      hadMove |-> pre.hasMove, hasMove |-> hasMove,
                      movementCalls |->
                        MovementChangeCalls(pre.hasMove, hasMove),
                      onJumpCalls |-> OnJumpCalls(jumped),
                      impulses |->
                        Min(pre.impulses + (IF jumped THEN 1 ELSE 0), 2),
                      wantX |-> want.x, wantZ |-> want.z,
                      dampX |-> vx, dampZ |-> vz,
                      fwdX |-> fwd.x, fwdZ |-> fwd.z,
                      xInt |-> x1, zInt |-> z1,
                      vx |-> velocity.x, vz |-> velocity.z,
                      presses |-> since.presses, tapped |-> since.tapped]
           /\ since' = [NoSince EXCEPT !.held = since.held,
                                       !.shifted = since.shifted,
                                       !.pointer = since.pointer]
           /\ threw' = (threw \/ ReadThrows)
           /\ press' = IF press.any
                       THEN [press EXCEPT
                               !.jumps = Min(@ + (IF jumped THEN 1 ELSE 0), 2),
                               !.updated = TRUE,
                               !.flew = @ \/ (~landed /\ (jumped \/ ~onGround)),
                               !.landed = @ \/ (landed /\ (jumped \/ ~onGround)),
                               !.airTime =
                                 IF jumped \/ (press.jumps > 0 /\ ~press.landed)
                                 THEN @ + dt ELSE @]
                       ELSE press
           /\ frames' = Min(frames + 1, MaxCount)
           /\ UNCHANGED <<target, environment, keysDown, dragging, pointerId,
                          lastPointerX, lastPointerY, yaw, phi, distance,
                          domVars, disposeCalls, calc>>

\* a call of update(dt) by itself
Frame(dt) == update(dt) /\ UNCHANGED mainVars

----------------------------------------------------------------------------
(* Construction *)

\* has: "object" unless the environment is null, and the properties it holds
Environment(groundY, half, colliders) ==
  [has |-> {"object", "groundY", "boundsHalfSize", "treeColliders"},
   groundY |-> groundY, boundsHalfSize |-> half, treeColliders |-> colliders]

NoEnvironment ==
  [has |-> {}, groundY |-> 0, boundsHalfSize |-> 0, treeColliders |-> <<>>]

Collider(x, z, radius) == [x |-> x, z |-> z, radius |-> radius]

\* main.js before the load of the player has settled, no tick yet.
\* player: "loading" while the promise of loadPlayer is pending, "ready" once
\* player = result, "failed" once the promise was rejected; npcs: the NPCs
\* pushed so far; delta, dt and calls: what the clock reported to the last
\* tick, the dt it computed and the callees it passed dt to
NoLoop ==
  [player |-> "loading", npcs |-> 0, ticks |-> 0, delta |-> 0, dt |-> 0,
   calls |-> {}]

\* createEnvironment before the first tree: tries counts the draws made for
\* the tree being placed, (x, z) is the last draw, done tells that the loop of
\* the draws was left, placed counts the trees pushed
NoPlace == [tries |-> 0, x |-> 0, z |-> 0, done |-> FALSE, placed |-> 0]

\* the fields the constructor sets, without the listeners it registers
ControllerFields(tgt, start, env) ==
  /\ target = tgt
  /\ position = start
  /\ facing = 0
  /\ camPos = CameraStart
  /\ camAim = Vec(0, 0, 0)
  /\ environment = env
  /\ velocity = Vec(0, 0, 0)
  /\ onGround = TRUE
  /\ keysDown = {}
  /\ jumpRequested = FALSE
  /\ dragging = FALSE
  /\ pointerId = NoPointer
  /\ lastPointerX = 0
  /\ lastPointerY = 0
  /\ yaw = 0
  /\ phi = InitPhi
  /\ distance = InitDistance
  /\ dragClass = FALSE
  /\ onJumpCalls = 0
  /\ threw = FALSE
  /\ lastOp = "new"
  /\ pre = NoUpdate
  /\ press = NoPress
  /\ disposeCalls = 0
  /\ frames = 0
  /\ calc = NoCalc
  /\ since = NoSince
  /\ loop = NoLoop
  /\ place = NoPlace

\* new ThirdPersonController({camera, target, domElement, environment})
Constructed(tgt, start, env) ==
  /\ ControllerFields(tgt, start, env)
  /\ listeners = CtorListeners

----------------------------------------------------------------------------
(* Jumping and falling: Space and one movement key, on open ground *)

MaxFrames == 19
StartHeights == {-200, 0, 300}

InitJump ==
  \E tgt \in BOOLEAN, h \in StartHeights :
    Constructed(tgt, Vec(0, h, 0), Environment(0, DefaultHalf, <<>>))

NextJump ==
  \/ \E repeat \in BOOLEAN : KeyDownEvent("Space", repeat)
  \/ KeyUpEvent("Space")
  \/ frames < MaxFrames /\ \E dt \in {0, MaxDt} : Frame(dt)

SpecJump == InitJump /\ [][NextJump]_vars

----------------------------------------------------------------------------
(* Walking: movement keys, a small world and one tree *)

MaxMoveFrames == 3

TreeAtSpawn == Environment(0, DefaultHalf, <<Collider(0, 0, 1000)>>)
TreeAtEdge == Environment(0, 6000, <<Collider(0, -3000, 1000)>>)

MoveScenes ==
  { <<Vec(0, 0, 0), TreeAtSpawn>>,
    <<Vec(300, 0, 400), TreeAtSpawn>>,
    <<Vec(0, 0, 1600), TreeAtSpawn>>,
    <<Vec(1280, 0, -3900), TreeAtEdge>>,
    <<Vec(0, 0, 0), NoEnvironment>> }

InitMove == \E sc \in MoveScenes : Constructed(TRUE, sc[1], sc[2])

NextMove ==
  \/ \E code \in {"KeyW", "KeyA", "ShiftLeft"} : KeyDownEvent(code, FALSE)
  \/ \E code \in {"KeyW", "KeyA", "ShiftLeft"} : KeyUpEvent(code)
  \/ frames < MaxMoveFrames /\ \E dt \in {0, MaxDt} : Frame(dt)

SpecMove == InitMove /\ [][NextMove]_vars

----------------------------------------------------------------------------
(* Input: every event the controller listens to, and dispose() *)

MaxInputFrames == 1
MaxTurns == 1              \* drags to the right that turn the camera

InitInput ==
  Constructed(TRUE, Vec(0, 0, 0), Environment(0, DefaultHalf, <<>>))

NextInput ==
  \/ KeyDownEvent("Space", FALSE)
  \/ KeyUpEvent("Space")
  \/ \E p \in {<<0, 1>>, <<2, 1>>, <<0, 2>>} : PointerDownEvent(p[1], p[2], 0, 0)
  \/ \E id \in {1, 2}, q \in {<<0, 0>>, <<100, 50>>} :
       /\ yaw > -MaxTurns * 100 * RotateSpeed
       /\ PointerMoveEvent(id, q[1], q[2])
  \/ \E id \in {1, 2} : PointerUpEvent(id)
  \/ \E id \in {1, 2} : PointerCancelEvent(id)
  \/ \E deltaY \in {-100, 0} : WheelEvent(deltaY)
  \/ ContextMenuEvent
  \/ dispose
  \/ frames < MaxInputFrames /\ Frame(MaxDt)

SpecInput == InitInput /\ [][NextInput]_vars

----------------------------------------------------------------------------
(* The camera orbit: wheel events in both directions and drags up and down *)

WheelDeltas == {-120, 0, 120}
DragXs == {0, 50}
DragYs == {0, 100, 200}

InitOrbit ==
  Constructed(TRUE, Vec(0, 0, 0), Environment(0, DefaultHalf, <<>>))

NextOrbit ==
  \/ \E y \in DragYs : PointerDownEvent(0, 1, 0, y)
  \/ \E x \in DragXs, y \in DragYs :
       /\ Abs(yaw) <= MaxTurns * 50 * RotateSpeed
       /\ PointerMoveEvent(1, x, y)
  \/ PointerUpEvent(1)
  \/ \E deltaY \in WheelDeltas : WheelEvent(deltaY)

SpecOrbit == InitOrbit /\ [][NextOrbit]_vars

----------------------------------------------------------------------------
(* Move intent: every combination of W, A, S, D and Shift, on open ground *)

MaxKeyFrames == 2
MoveKeys == {"KeyW", "KeyA", "KeyS", "KeyD", "ShiftLeft"}
KeyStarts == {Vec(0, 0, 0), Vec(3000, 0, 4000)}

InitKeys ==
  \/ \E start \in KeyStarts :
       Constructed(TRUE, start, Environment(0, DefaultHalf, <<>>))
  \/ Constructed(TRUE, Vec(300, 0, 400), TreeAtSpawn)

NextKeys ==
  \/ \E code \in MoveKeys : KeyDownEvent(code, FALSE)
  \/ \E code \in MoveKeys : KeyUpEvent(code)
  \/ frames < MaxKeyFrames /\ Frame(MaxDt)

SpecKeys == InitKeys /\ [][NextKeys]_vars

----------------------------------------------------------------------------
(* One jump at 60 frames per second, from the ground *)

MaxHopFrames == 50
FrameDt == MS \div 60

InitHop == Constructed(TRUE, Vec(0, 0, 0), Environment(0, DefaultHalf, <<>>))

NextHop ==
  \/ KeyDownEvent("Space", FALSE)
  \/ KeyUpEvent("Space")
  \/ frames < MaxHopFrames /\ Frame(FrameDt)

SpecHop == InitHop /\ [][NextHop]_vars

----------------------------------------------------------------------------
(* Bursts of key events between two updates, on open ground *)

MaxBurstFrames == 3

InitBurst ==
  Constructed(TRUE, Vec(0, 0, 0), Environment(0, DefaultHalf, <<>>))

NextBurst ==
  \/ \E repeat \in BOOLEAN : KeyDownSeen("Space", repeat)
  \/ KeyUpSeen("Space")
  \/ KeyDownSeen("KeyW", FALSE)
  \/ KeyUpSeen("KeyW")
  \/ frames < MaxBurstFrames /\ Frame(MaxDt)

SpecBurst == InitBurst /\ [][NextBurst]_vars

----------------------------------------------------------------------------
(* Drags: two pointers, two buttons, and dispose() *)

InitDrag ==
  Constructed(TRUE, Vec(0, 0, 0), Environment(0, DefaultHalf, <<>>))

NextDrag ==
  \/ \E button \in {0, 2}, id \in {1, 2} : PointerDownSeen(button, id, 0, 0)
  \/ \E id \in {1, 2}, x \in DragXs, y \in DragYs :
       /\ Abs(yaw) <= MaxTurns * 50 * RotateSpeed
       /\ PointerMoveSeen(id, x, y)
  \/ \E id \in {1, 2} : PointerUpSeen(id)
  \/ \E id \in {1, 2} : PointerCancelSeen(id)
  \/ dispose

SpecDrag == InitDrag /\ [][NextDrag]_vars

----------------------------------------------------------------------------
(* main.js: the load of the player and of the NPCs, and tick() *)

MaxTicks == 2
NpcCount == 3
ClockDeltas == {0, FrameDt, MaxDt, MaxDt + 1, 5 * MaxDt}

\* as FrameStep, without the cap
FrameStepUnclamped(delta) == delta

\* const dt = Math.min(0.05, clock.getDelta());
FrameStep(delta) == Min(MaxDt, delta)

\* as ControllerReady, for a tick that does not test the player
ControllerReadyAlways == TRUE

\* if (player?.controller)
ControllerReady == loop.player = "ready"

\* the callees that one tick passes dt to, and the renderer
TickCalls ==
  {"env.update", "renderer.render"}
    \cup (IF ControllerReady
          THEN {"controller.update", "player.mixer.update"} ELSE {})
    \cup (IF loop.npcs > 0 THEN {"npc.mixer.update", "npc.update"} ELSE {})

\* loadPlayer's onLoad: the controller is constructed, the promise resolves
\* and .then sets player = result before any other task runs
PlayerLoaded ==
  /\ loop.player = "loading"
  /\ loop' = [loop EXCEPT !.player = "ready"]
  /\ listeners' = CtorListeners
  /\ UNCHANGED <<ctrlVars, sceneVars, dragClass, histVars, place>>

\* loadPlayer's onError: reject(err), and .catch shows the failure
PlayerFailed ==
  /\ loop.player = "loading"
  /\ loop' = [loop EXCEPT !.player = "failed"]
  /\ UNCHANGED <<ctrlVars, sceneVars, domVars, histVars, place>>

\* loadNPC(...).then((npc) => npcs.push(npc))
NpcLoaded ==
  /\ loop.npcs < NpcCount
  /\ loop' = [loop EXCEPT !.npcs = @ + 1]
  /\ UNCHANGED <<ctrlVars, sceneVars, domVars, histVars, place>>

tick(delta) ==
  \E dt \in {FrameStep(delta)} :
    /\ loop' = [loop EXCEPT !.ticks = @ + 1, !.delta = delta, !.dt = dt,
                            !.calls = TickCalls]
    /\ IF ControllerReady THEN update(dt)
       ELSE UNCHANGED <<ctrlVars, sceneVars, domVars, histVars>>
    /\ UNCHANGED place

InitLoop ==
  /\ ControllerFields(TRUE, Vec(0, 0, 0), Environment(0, DefaultHalf, <<>>))
  /\ listeners = {}

NextLoop ==
  \/ PlayerLoaded
  \/ PlayerFailed
  \/ NpcLoaded
  \/ \E code \in {"Space", "KeyW"} : KeyDownEvent(code, FALSE)
  \/ \E code \in {"Space", "KeyW"} : KeyUpEvent(code)
  \/ loop.ticks < MaxTicks /\ \E delta \in ClockDeltas : tick(delta)

SpecLoop == InitLoop /\ [][NextLoop]_vars

----------------------------------------------------------------------------
(* Environments: null, and objects that lack some of the three properties *)

MaxEnvFrames == 2

SmallWorld == Environment(1000, 6000, <<Collider(0, 0, 1000)>>)

\* env without the properties in names
Lacking(env, names) == [env EXCEPT !.has = @ \ names]

\* null, or an object
Environments ==
  {Lacking(SmallWorld, {"object", "groundY", "boundsHalfSize",
                        "treeColliders"})}
    \cup {Lacking(SmallWorld, names) :
            names \in SUBSET {"groundY", "boundsHalfSize", "treeColliders"}}

EnvStarts == {Vec(300, 500, 400), Vec(9000, -200, 0)}

InitEnv ==
  \E start \in EnvStarts, env \in Environments :
    Constructed(TRUE, start, env)

NextEnv ==
  \/ \E code \in {"Space", "KeyW"} : KeyDownEvent(code, FALSE)
  \/ \E code \in {"Space", "KeyW"} : KeyUpEvent(code)
  \/ frames < MaxEnvFrames /\ Frame(MaxDt)

SpecEnv == InitEnv /\ [][NextEnv]_vars

----------------------------------------------------------------------------
(* createEnvironment: the placement of the trees *)

MaxTrees == 2
MaxTries == 50
SpawnAvoidRadius == 16000
FieldSize == 520
PlaceRange == (FieldSize \div 2 - 6) * 1000

\* x * x + z * z > spawnAvoidRadius * spawnAvoidRadius
OutsideSpawn(x, z) ==
  \/ Abs(x) > SpawnAvoidRadius
  \/ Abs(z) > SpawnAvoidRadius
  \/ x * x + z * z > SpawnAvoidRadius * SpawnAvoidRadius

\* (Math.random() * 2 - 1) * (half - 6) for both coordinates: the centre, a
\* point on the circle, one just outside it, and a corner of the field
Draws ==
  {<<0, 0>>, <<-9600, 12800>>, <<SpawnAvoidRadius + 1, 0>>,
   <<-PlaceRange, PlaceRange>>}

\* 1.15 * s for s = 0.9 + Math.random() * 0.6
Radii == {1035, 1725}

\* one pass of the loop of the tries: a draw, and the break when it is outside
\* the spawn circle
Draw(x, z) ==
  /\ ~place.done /\ place.tries < MaxTries /\ place.placed < MaxTrees
  /\ place' = [place EXCEPT !.x = x, !.z = z, !.tries = @ + 1,
                            !.done = OutsideSpawn(x, z)
                                     \/ place.tries + 1 = MaxTries]
  /\ UNCHANGED <<ctrlVars, sceneVars, domVars, histVars, loop>>

\* after the loop: treeColliders.push({position: (x, 0, z), radius}), and the
\* next tree starts with let x = 0, z = 0
PushCollider(radius) ==
  /\ place.done
  /\ environment' =
       [environment EXCEPT
          !.treeColliders = Append(@, Collider(place.x, place.z, radius))]
  /\ place' = [NoPlace EXCEPT !.placed = place.placed + 1]
  /\ UNCHANGED <<ctrlVars, target, position, facing, camPos, camAim, domVars,
                 histVars, loop>>

InitTrees ==
  /\ ControllerFields(TRUE, Vec(0, 0, 0), Environment(0, DefaultHalf, <<>>))
  /\ listeners = {}

NextTrees ==
  \/ \E d \in Draws : Draw(d[1], d[2])
  \/ \E radius \in Radii : PushCollider(radius)

SpecTrees == InitTrees /\ [][NextTrees]_vars

----------------------------------------------------------------------------
(* Two trees whose colliders overlap, as the random placement can put them *)

MaxGroveFrames == 2

Grove ==
  Environment(0, DefaultHalf, <<Collider(0, 0, 1000), Collider(2000, 0, 1000)>>)

GroveStarts == {Vec(1000, 0, 300), Vec(1000, 0, 3000), Vec(-3000, 0, 0)}

InitGrove == \E start \in GroveStarts : Constructed(TRUE, start, Grove)

NextGrove ==
  \/ \E code \in {"KeyW", "KeyA", "KeyD"} : KeyDownEvent(code, FALSE)
  \/ \E code \in {"KeyW", "KeyA", "KeyD"} : KeyUpEvent(code)
  \/ frames < MaxGroveFrames /\ Frame(MaxDt)

SpecGrove == InitGrove /\ [][NextGrove]_vars

----------------------------------------------------------------------------
(* Walking and running up to speed, on open ground and into a tree *)

MaxRunFrames == 4

InitRun == Constructed(TRUE, Vec(0, 0, 2000), TreeAtSpawn)

NextRun ==
  \/ \E code \in {"KeyW", "KeyD"} : KeyDownEvent(code, FALSE)
  \/ \E code \in {"KeyW", "KeyD"} : KeyUpEvent(code)
  \/ KeyDownSeen("ShiftLeft", FALSE)
  \/ KeyUpSeen("ShiftLeft")
  \/ frames < MaxRunFrames /\ Frame(MaxDt)

SpecRun == InitRun /\ [][NextRun]_vars

----------------------------------------------------------------------------
(* Falling: updates that keep coming while the player is in the air *)

MaxFallFrames == 2
FallDts == {FrameDt, 2 * FrameDt, MaxDt}

InitFall == Constructed(TRUE, Vec(0, 0, 0), Environment(0, DefaultHalf, <<>>))

\* requestAnimationFrame(tick): a frame follows every frame.  The frame
\* rate is steady while the player is in the air; on the ground the run is cut
\* after MaxFallFrames updates
FallFrame ==
  /\ ~onGround \/ frames < MaxFallFrames
  /\ \E dt \in (IF onGround THEN FallDts ELSE {pre.dt}) : Frame(dt)

\* a step that is a call of update, told by the history it writes
UpdateStep ==
  /\ ~onGround \/ frames < MaxFallFrames
  /\ lastOp' = "update"
  /\ frames' = Min(frames + 1, MaxCount)

NextFall ==
  \/ \E repeat \in BOOLEAN : KeyDownEvent("Space", repeat)
  \/ KeyUpEvent("Space")
  \/ FallFrame

\* fairness: while the player is in the air the next frame always comes
SpecFall ==
  InitFall /\ [][NextFall]_vars /\ WF_<<lastOp, frames>>(UpdateStep)

----------------------------------------------------------------------------
(* damp, applied repeatedly with fixed target, lambda and dt *)

MaxDampSteps == 4
DampValues == {-7400, -30, 0, 1, 4600}
DampLambdas == {1, AccelStop, AccelMove, 100}
DampDts == {FrameDt, MaxDt}

DampCall(current, tgt, lambda, dt) ==
  /\ calc' = [steps |-> 1, current |-> current, tgt |-> tgt,
              lambda |-> lambda, dt |-> dt,
              out |-> damp(current, tgt, lambda, dt)]
  /\ UNCHANGED <<ctrlVars, sceneVars, domVars, lastOp, pre, press,
                 disposeCalls, frames, onJumpCalls, threw, since, mainVars>>

\* the result is the next call's current
DampAgain ==
  /\ calc.steps >= 1 /\ calc.steps < MaxDampSteps
  /\ calc' = [calc EXCEPT !.steps = @ + 1, !.current = calc.out,
                          !.out = damp(calc.out, calc.tgt, calc.lambda,
                                       calc.dt)]
  /\ UNCHANGED <<ctrlVars, sceneVars, domVars, lastOp, pre, press,
                 disposeCalls, frames, onJumpCalls, threw, since, mainVars>>

InitDamp == Constructed(TRUE, Vec(0, 0, 0), Environment(0, DefaultHalf, <<>>))

NextDamp ==
  \/ \E current \in DampValues, tgt \in DampValues, lambda \in DampLambdas,
        dt \in DampDts : DampCall(current, tgt, lambda, dt)
  \/ DampAgain

SpecDamp == InitDamp /\ [][NextDamp]_vars

----------------------------------------------------------------------------
(* Properties *)

Updated == lastOp = "update" /\ pre.ran

\* C1: one physical press of Space while grounded causes exactly one jump,
\* however many updates run while the key stays held, also after landing:
\* since the last non-repeat Space keydown there was at most one jump, and
\* exactly one once an update has run if that keydown came while grounded.
C1_JumpOncePerPress ==
  (target /\ press.any) =>
    /\ press.jumps <= 1
    /\ (press.grounded /\ press.updated => press.jumps = 1)

\* C1: the key is still held, the jump of this press has landed, and an update
\* that started on the ground has run since
C1_HeldAfterLanding ==
  /\ target /\ press.any /\ press.grounded /\ press.jumps = 1
  /\ press.flew /\ press.landed
  /\ "Space" \in keysDown
  /\ Updated /\ pre.onGround /\ pre.dt > 0

\* C2: a non-repeat Space keydown that arrives while airborne causes no jump:
\* not in the next update, not in the landing update and not after it.
C2_AirbornePressDiscarded ==
  /\ (target /\ press.any /\ ~press.grounded) => press.jumps = 0
  /\ (Updated /\ ~pre.onGround) => ~pre.jumped

\* C2: the press came in the air, the character has landed and an update that
\* started on the ground has run since
C2_PressedInAirThenLanded ==
  /\ target /\ press.any /\ ~press.grounded /\ press.updated
  /\ Updated /\ pre.onGround /\ onGround

\* C3: after every call of update(dt) returns, _jumpRequested is false,
\* whatever the controller's state (its target reference included) was.
C3_RequestClearedByEveryUpdate == lastOp = "update" => ~jumpRequested

\* C3 where the target is set: the request is consumed by the update
C3_RequestClearedWithTarget == Updated => ~jumpRequested

\* C4: after every update the target is inside the world bounds less the
\* margin on both horizontal axes, whatever tree colliders there are.
C4_InsideBounds ==
  Updated =>
    /\ Abs(position.x) <= Half - Margin
    /\ Abs(position.z) <= Half - Margin

ColTol == 2

DistanceSq(x, z, c) == (x - c.x) * (x - c.x) + (z - c.z) * (z - c.z)

Clear(x, z, c) ==
  LET r == PlayerRadius + c.radius - ColTol
  IN  Abs(x - c.x) >= r \/ Abs(z - c.z) >= r \/ DistanceSq(x, z, c) >= r * r

\* C5: with a single collider, whenever the player is closer to its centre
\* than the two radii at the collision step (distance 0 included), after the
\* update the player is at least the two radii away from the centre (to the
\* rounding of the arithmetic).
C5_PushedOutOfCollider ==
  (Updated /\ Len(Colliders) = 1
     /\ Penetrates(pre.colX, pre.colZ, Colliders[1]))
  => Clear(position.x, position.z, Colliders[1])

\* C5 for a player away from the centre of the collider
C5_PushedOutUnlessCentred ==
  (Updated /\ Len(Colliders) = 1
     /\ Penetrates(pre.colX, pre.colZ, Colliders[1])
     /\ DistanceSq(pre.colX, pre.colZ, Colliders[1]) > 0)
  => Clear(position.x, position.z, Colliders[1])

\* C6: after every update the target is at or above the ground, and in the
\* update whose integrated height reaches or passes below the ground the
\* height is exactly groundY, velocity.y exactly 0 and onGround true.
C6_NoGroundPenetration ==
  Updated =>
    /\ position.y >= GroundY
    /\ (pre.yInt <= GroundY =>
          position.y = GroundY /\ velocity.y = 0 /\ onGround)

\* C6: an airborne update with dt > 0 whose integrated height is below ground
C6_FellThroughGroundLevel ==
  Updated /\ pre.airborne /\ ~pre.jumped /\ pre.dt > 0 /\ pre.yInt < GroundY

\* C7: an update that starts grounded at groundY with velocity.y = 0 and no
\* pending jump request ends at groundY with velocity.y = 0 and onGround
\* true, whatever movement or run keys are held.
C7_GroundedStaysGrounded ==
  (Updated /\ pre.onGround /\ pre.y = GroundY /\ pre.vy = 0
     /\ ~pre.jumpRequested)
  => (position.y = GroundY /\ velocity.y = 0 /\ onGround)

\* C7: such an update while running forward, with the character moving
C7_RanAlongTheGround ==
  /\ Updated /\ pre.onGround /\ pre.y = GroundY /\ pre.vy = 0
  /\ ~pre.jumpRequested /\ pre.dt > 0
  /\ {"KeyW", "ShiftLeft"} \subseteq keysDown
  /\ velocity.z # 0 /\ frames >= 3

\* C8: after construction and after each update, onGround is true if and
\* only if the target's height is at or below the environment's groundY.
C8_OnGroundIffAtGround ==
  (target /\ lastOp \in {"new", "update"}) =>
    (onGround <=> position.y <= GroundY)

\* C9: dispose() unregisters every listener the constructor registered, and
\* after it no keyboard, pointer or wheel event changes a controller field.
C9_DisposeUnregistersAll ==
  [][ /\ (disposeCalls' > 0 => listeners' \cap CtorListeners = {})
      /\ (disposeCalls > 0 /\ lastOp' = "event" => UNCHANGED ctrlVars) ]_vars

\* C9: an event arrived after dispose(), during a drag with Space held
C9_EventAfterDispose ==
  disposeCalls > 0 /\ lastOp = "event" /\ dragging /\ "Space" \in keysDown

\* C10: a second (or later) dispose() raises no error and leaves the listener
\* registrations and every controller field as they were.
C10_DisposeIdempotent ==
  [][ (disposeCalls >= 1 /\ lastOp' = "dispose") =>
        (UNCHANGED <<ctrlVars, sceneVars, domVars>> /\ ~threw') ]_vars

\* C10: dispose() was called twice
C10_DisposedTwice == disposeCalls = 2 /\ lastOp = "dispose"

\* C11: an onMovementChange callback supplied at construction is invoked with
\* true in the update where locomotion goes from idle to moving and with false
\* in the update where it goes from moving to idle, and in no other update.
C11_MovementChangeNotified ==
  Updated =>
    pre.movementCalls = (IF pre.hasMove # pre.hadMove THEN <<pre.hasMove>>
                         ELSE <<>>)

\* C12: onJump is invoked exactly once in each update that performs the
\* grounded-to-airborne transition (onGround and a pending request at the jump
\* check), in no other update and from no input handler; so the number of
\* onJump calls equals the number of jump impulses applied.
C12_OnJumpOncePerJump ==
  [][ /\ (lastOp' = "update" /\ pre'.ran) =>
           /\ pre'.jumped = (onGround /\ jumpRequested)
           /\ pre'.onJumpCalls = (IF pre'.jumped THEN 1 ELSE 0)
      /\ (lastOp' # "update" \/ ~pre'.ran) => onJumpCalls' = onJumpCalls
      /\ onJumpCalls' = pre'.impulses ]_vars

\* C12: the second jump of a run has just been performed
C12_JumpedTwice ==
  Updated /\ pre.jumped /\ pre.onJumpCalls = 1 /\ onJumpCalls = 2

InOrbitRange ==
  /\ MinDistance <= distance' /\ distance' <= MaxDistance
  /\ MinPhi <= phi' /\ phi' <= MaxPhi

\* a drag-up move (the pointer's y decreases) takes phi towards minPhi and
\* onto it when the move reaches it
DragUpSaturates ==
  \A x \in DragXs, y \in DragYs :
    (dragging /\ pointerId = 1 /\ y < lastPointerY /\ PointerMoveEvent(1, x, y))
    => /\ phi' <= phi
       /\ (phi - MinPhi <= (lastPointerY - y) * RotateSpeed => phi' = MinPhi)

\* C13 as stated: distance and phi stay within their ranges, every wheel-down
\* event (deltaY > 0) takes distance towards minDistance, and onto it from
\* within one zoom step, and drag-up moves do the same for phi and minPhi.
C13_WheelDownSaturatesAtMin ==
  [][ /\ InOrbitRange
      /\ DragUpSaturates
      /\ \A d \in WheelDeltas :
           (d > 0 /\ WheelEvent(d))
           => /\ distance' <= distance
              /\ (distance <= MinDistance + ZoomStep
                    => distance' = MinDistance) ]_vars

\* C13 amended: the same, with the wheel directions as _onWheel has them:
\* wheel-up events (deltaY < 0) saturate distance at minDistance and
\* wheel-down events (deltaY > 0) saturate it at maxDistance.
C13_OrbitClamps ==
  [][ /\ InOrbitRange
      /\ DragUpSaturates
      /\ \A d \in WheelDeltas :
           WheelEvent(d)
           => /\ d < 0 => /\ distance' <= distance
                          /\ (distance <= MinDistance + ZoomStep
                                => distance' = MinDistance)
              /\ d > 0 => /\ distance' >= distance
                          /\ (distance >= MaxDistance - ZoomStep
                                => distance' = MaxDistance)
              /\ d = 0 => distance' = distance ]_vars

\* C13: both clamps are reached, during a drag
C13_SaturatedBoth ==
  distance = MinDistance /\ phi = MinPhi /\ dragging /\ lastOp = "event"

SpeedTol == 2

\* the part of this._desiredVel along the unit vector (ux, uz)
Along(ux, uz) == RDiv(pre.wantX * ux + pre.wantZ * uz, FX)

\* C14: for every combination of held W/A/S/D keys with a non-zero move
\* intent the desired horizontal velocity has magnitude walkSpeed (runSpeed
\* with Shift held), so two perpendicular keys give the speed of one key
\* alone; opposite keys held together cancel to zero on their axis (to the
\* rounding of the arithmetic).
C14_DiagonalNormalized ==
  Updated =>
    /\ (XInput # 0 \/ ZInput # 0) =>
         Abs(Length2(pre.wantX, pre.wantZ) - MaxSpeed) <= SpeedTol
    /\ (XInput = 0 /\ ZInput = 0) => (pre.wantX = 0 /\ pre.wantZ = 0)
    /\ {"KeyA", "KeyD"} \subseteq keysDown =>
         Abs(Along(-pre.fwdZ, pre.fwdX)) <= SpeedTol
    /\ {"KeyW", "KeyS"} \subseteq keysDown =>
         Abs(Along(pre.fwdX, pre.fwdZ)) <= SpeedTol

\* C14: an update with two perpendicular keys and Shift held, the camera not
\* aligned with a world axis
C14_RanDiagonally ==
  /\ Updated /\ keysDown = {"KeyW", "KeyD", "ShiftLeft"}
  /\ pre.fwdX # 0 /\ pre.fwdZ # 0
  /\ pre.wantX # 0 /\ pre.wantZ # 0

\* the jump of the last press, made on the ground
JumpOfPress == target /\ press.any /\ press.grounded /\ press.jumps = 1

\* C15: from the ground, with jumpSpeed 7.2, gravity 18.5 and dt = 1/60,
\* onGround is false after every update from the launch to the one before the
\* landing, the landing update comes after 46 or 47 frames in the air (about
\* 2 * jumpSpeed / gravity = 0.778 s), and it ends at groundY with
\* velocity.y = 0.
C15_JumpArc ==
  JumpOfPress =>
    /\ (Updated /\ ~press.landed) => ~onGround
    /\ press.landed => press.airTime \in {46 * FrameDt, 47 * FrameDt}
    /\ (Updated /\ press.landed /\ pre.airborne) =>
         (position.y = GroundY /\ velocity.y = 0 /\ onGround)

\* C15: the landing update of such a jump
C15_Landed ==
  JumpOfPress /\ Updated /\ press.landed /\ pre.airborne /\ pre.dt = FrameDt

\* C16: for lambda > 0 and dt > 0 each application of damp returns a value
\* between current and target, never farther from target than current, and
\* strictly closer whenever the exact step is at least one unit of the
\* arithmetic; so repeated application never passes the target.
C16_DampNoOvershoot ==
  calc.steps > 0 =>
    /\ Min(calc.current, calc.tgt) <= calc.out
    /\ calc.out <= Max(calc.current, calc.tgt)
    /\ Abs(calc.tgt - calc.out) <= Abs(calc.tgt - calc.current)
    /\ (Blend(calc.lambda, calc.dt) * Abs(calc.tgt - calc.current) >= FX
          => Abs(calc.tgt - calc.out) < Abs(calc.tgt - calc.current))

\* C16: a third application in a row that still moved towards a target not
\* yet reached
C16_StillApproaching ==
  /\ calc.steps >= 3
  /\ calc.out # calc.current /\ calc.out # calc.tgt

\* C17: when the player is exactly at a collider's centre in the collision
\* step, a non-zero fallback normal is used and the player is displaced away
\* from the centre along it.
C17_DegenerateNormalDisplaces ==
  (Updated /\ Len(Colliders) = 1
     /\ pre.colX = Colliders[1].x /\ pre.colZ = Colliders[1].z)
  => (position.x # Colliders[1].x \/ position.z # Colliders[1].z)

VelTol == 3

\* the normal (nx, nz) of the collision step for a player at (x, z), in 1e-4
NormalAt(x, z, c) ==
  LET d == CollisionDistance(DistanceSq(x, z, c))
  IN  [x |-> RDiv((x - c.x) * 10 * FX, d), z |-> RDiv((z - c.z) * 10 * FX, d)]

\* the component of the velocity (vx, vz) along the unit vector (ux, uz)
Component(vx, vz, ux, uz) == RDiv(vx * ux + vz * uz, FX)

\* C18: when the collision step resolves an overlap with normal n, afterwards
\* the horizontal velocity's component along n is >= 0 and its component
\* tangential to n is unchanged (to the rounding of the arithmetic), and a
\* velocity whose component along n was already >= 0 is left unchanged.
C18_VelocityOutOfCollider ==
  (Updated /\ Len(Colliders) = 1
     /\ Penetrates(pre.colX, pre.colZ, Colliders[1]))
  => LET n == NormalAt(pre.colX, pre.colZ, Colliders[1])
     IN  /\ Component(velocity.x, velocity.z, n.x, n.z) >= -VelTol
         /\ Abs(Component(velocity.x, velocity.z, -n.z, n.x)
                - Component(pre.dampX, pre.dampZ, -n.z, n.x)) <= VelTol
         /\ (pre.dampX * n.x + pre.dampZ * n.z >= 0
               => (velocity.x = pre.dampX /\ velocity.z = pre.dampZ))

\* C18: an overlap resolved while the character ran into the collider at an
\* angle: the velocity into the collider was cancelled and the character
\* slides on
C18_SlidAlongCollider ==
  /\ Updated /\ Len(Colliders) = 1
  /\ Penetrates(pre.colX, pre.colZ, Colliders[1])
  /\ LET n == NormalAt(pre.colX, pre.colZ, Colliders[1])
     IN  /\ Component(pre.dampX, pre.dampZ, n.x, n.z) < -1000
         /\ Abs(Component(velocity.x, velocity.z, -n.z, n.x)) > 1000

\* C19: every update(dt) with 0 <= dt <= 0.05 that is called on the ground
\* with onGround true and a pending jump request ends with onGround false and
\* velocity.y = jumpSpeed - gravity * dt.
C19_ConsumedJumpLeavesGround ==
  (Updated /\ pre.jumped /\ pre.y = GroundY)
  => (~onGround /\ velocity.y = JumpSpeed - RDiv(Gravity * pre.dt, MS))

\* the camera, at camPos and turned towards camAim, looks directly at p
LooksAt(p) ==
  LET ax == camAim.x - camPos.x
      ay == camAim.y - camPos.y
      az == camAim.z - camPos.z
      bx == p.x - camPos.x
      by == p.y - camPos.y
      bz == p.z - camPos.z
  IN  /\ ay * bz - az * by = 0
      /\ az * bx - ax * bz = 0
      /\ ax * by - ay * bx = 0
      /\ ax * bx + ay * by + az * bz >= 0

\* C20: when update returns, the camera looks directly at the aim point
\* target.position + (0, targetHeight, 0) of the target's current position.
C20_CameraLooksAtTarget == Updated => LooksAt(AimPoint(position))

\* C21: events between two updates take effect only through the state the
\* next update reads.  An update that ran jumps at most once, and only if a
\* non-repeat Space keydown came since the update before, so a burst of
\* presses gives one jump in the next update and none later; the request is
\* gone after the update.  A movement key that went down and up again since
\* the update before leaves no move intent when no key is held: the wish is
\* zero, and a player at rest keeps its velocity and its position.
C21_BurstsCollapse ==
  Updated =>
    /\ pre.onJumpCalls <= 1
    /\ pre.jumped => pre.presses >= 1
    /\ (pre.presses >= 1 /\ pre.onGround) => pre.jumped
    /\ ~jumpRequested
    /\ (pre.tapped /\ since.held \subseteq {"Space"}) =>
         /\ ~pre.hasMove /\ pre.wantX = 0 /\ pre.wantZ = 0
         /\ (pre.vx = 0 /\ pre.vz = 0) =>
              /\ velocity.x = 0 /\ velocity.z = 0
              /\ position.x = pre.x /\ position.z = pre.z

\* two or more presses and a tapped movement key before one update, which
\* jumped once
C21_BurstThenUpdate ==
  /\ Updated /\ pre.presses = 2 /\ pre.jumped /\ pre.tapped
  /\ since.held = {} /\ pre.vx = 0 /\ pre.vz = 0

\* C22: the input handlers write input state only.  A step that is not an
\* update (an event or dispose) leaves the velocity, onGround, the target's
\* position and facing and the camera's position as they were.
C22_HandlersWriteInputOnly ==
  [][lastOp' # "update" =>
       UNCHANGED <<velocity, onGround, position, facing, camPos>>]_vars

\* events wrote the input state after an update had moved the camera
C22_InputWritten ==
  /\ lastOp = "event" /\ jumpRequested /\ dragging /\ yaw # 0
  /\ distance # InitDistance /\ "Space" \in keysDown
  /\ pre.ran /\ camPos # CameraStart

\* C23: the drag state machine.  A step in which a drag begins is a
\* pointerdown with button 0, which captures its pointer; a step in which a
\* drag ends is a pointerup or pointercancel of the captured pointer; a step
\* that changes yaw or phi is a pointermove of the captured pointer during a
\* drag.  Every other step, the moves of other pointers and the moves outside
\* a drag among them, leaves yaw and phi as they were.
C23_DragStateMachine ==
  [][(((~dragging /\ dragging') =>
        (lastOp' = "event" /\ since'.pointer.type = "pointerdown"
         /\ since'.pointer.button = 0 /\ pointerId' = since'.pointer.id))
      /\ ((dragging /\ ~dragging') =>
           (lastOp' = "event"
            /\ since'.pointer.type \in {"pointerup", "pointercancel"}
            /\ since'.pointer.id = pointerId))
      /\ ((yaw' # yaw \/ phi' # phi) =>
           (lastOp' = "event" /\ dragging /\ dragging'
            /\ since'.pointer.type = "pointermove"
            /\ since'.pointer.id = pointerId)))]_vars

\* pointer 2 holds a drag that has turned the camera, after pointer 1's
C23_SecondPointerDragged ==
  /\ dragging /\ pointerId = 2 /\ yaw # 0 /\ phi # InitPhi
  /\ since.pointer.type = "pointermove" /\ since.pointer.id = 1

\* C24: whatever the clock reports, the dt that a tick passes on is at most
\* 0.05 s: the dt of the last tick, which env.update, the mixers and the NPCs
\* got, and the dt of the last call of controller.update.
C24_FrameStepCapped ==
  /\ loop.ticks > 0 => loop.dt <= MaxDt /\ loop.dt <= loop.delta
  /\ frames > 0 => pre.dt <= MaxDt
  /\ "controller.update" \in loop.calls => pre.dt = loop.dt

\* the clock reported a quarter of a second and the controller got 0.05 s
C24_HitchCapped ==
  /\ loop.delta = 5 * MaxDt /\ "controller.update" \in loop.calls
  /\ Updated /\ pre.dt = MaxDt

\* C30: the load of the player and the frame loop.  controller.update is
\* called only by a tick that finds the player loaded, hence the controller
\* constructed; a failed load is final and the controller is never called
\* after it; every tick, whatever the state of the load, calls env.update,
\* the updates of the NPCs loaded so far and renderer.render.
C30_TickSkipsMissingPlayer ==
  [][((frames' # frames =>
         (loop.player = "ready" /\ listeners = CtorListeners))
      /\ (loop.player = "failed" =>
           (loop'.player = "failed" /\ frames' = frames
            /\ UNCHANGED <<ctrlVars, sceneVars>>))
      /\ (loop'.ticks # loop.ticks =>
           ({"env.update", "renderer.render"} \subseteq loop'.calls
            /\ (loop.npcs > 0 =>
                 {"npc.mixer.update", "npc.update"} \subseteq loop'.calls)
            /\ ("controller.update" \in loop'.calls
                 <=> loop.player = "ready"))))]_vars

\* the load failed and ticks went on, with an NPC, without the controller
C30_FailedLoadKeepsTicking ==
  /\ loop.player = "failed" /\ loop.ticks = MaxTicks /\ loop.npcs > 0
  /\ frames = 0 /\ loop.calls = {"env.update", "renderer.render",
                                  "npc.mixer.update", "npc.update"}

\* C25: a missing environment, or one that lacks a property.  update throws
\* nothing, and where groundY is missing the ground is at 0, where
\* boundsHalfSize is missing the world ends at 260 m less the margin, and
\* where treeColliders is missing no collider displaces the player.
C25_EnvironmentDefaults ==
  Updated =>
    /\ ~threw
    /\ "groundY" \notin environment.has =>
         IF pre.yInt <= 0 THEN position.y = 0 /\ velocity.y = 0 /\ onGround
         ELSE position.y = pre.yInt
    /\ "boundsHalfSize" \notin environment.has =>
         /\ pre.colX = Max(Margin - 260 * 1000, Min(pre.xInt, 260 * 1000 - Margin))
         /\ pre.colZ = Max(Margin - 260 * 1000, Min(pre.zInt, 260 * 1000 - Margin))
    /\ "treeColliders" \notin environment.has =>
         position.x = pre.colX /\ position.z = pre.colZ

\* a null environment: the player, below 0 and 9 m out, was put on the
\* ground at 0 and was left where it was, inside the default bound
C25_NullEnvironmentUsed ==
  /\ Updated /\ environment.has = {} /\ pre.xInt >= 9000
  /\ pre.yInt < 0 /\ position.y = 0 /\ position.x = pre.xInt

\* C26: the spawn area is clear of trees.  Every collider that the placement
\* has pushed has its centre strictly outside the circle of radius 16 m
\* around the origin, whatever the draws were.
C26_SpawnAreaClear ==
  \A i \in 1..Len(environment.treeColliders) :
    OutsideSpawn(environment.treeColliders[i].x,
                 environment.treeColliders[i].z)

\* C27: with several colliders, the player is clear of each of them after
\* every update: its distance to every collider's centre is at least
\* playerRadius + radius (to 2 mm of rounding).
C27_ClearOfEveryCollider ==
  Updated => \A i \in 1..Len(Colliders) :
               Clear(position.x, position.z, Colliders[i])

\* C28: from rest, the horizontal speed after every update is at most
\* runSpeed, and at most walkSpeed as long as no shift key was ever down (to
\* 2 mm/s of rounding).
C28_SpeedBounded ==
  Updated =>
    /\ Length2(velocity.x, velocity.z) <= RunSpeed + SpeedTol
    /\ ~since.shifted => Length2(velocity.x, velocity.z) <= WalkSpeed + SpeedTol

\* close to walkSpeed after four updates without shift
C28_AtWalkSpeed ==
  /\ Updated /\ ~since.shifted
  /\ Length2(velocity.x, velocity.z) >= WalkSpeed - 150

\* C29: every jump ends.  With updates that keep coming, each with a dt of
\* 1/60 s or more, a player in the air is on the ground again after finitely
\* many of them, at groundY with no vertical velocity, whatever keys are
\* pressed meanwhile.
C29_EveryJumpLands ==
  ~onGround ~> (onGround /\ position.y = GroundY /\ velocity.y = 0)

\* back on the ground after a jump
C29_Landed ==
  /\ Updated /\ press.jumps = 1 /\ press.flew /\ press.landed
  /\ onGround /\ position.y = GroundY /\ velocity.y = 0

=============================================================================
